---- MODULE Spec2Model ----
(***************************************************************************)
(* A model of mastodon2jekyll.py: the exporter that turns the activities   *)
(* of a Mastodon outbox archive into Jekyll post files.                    *)
(*                                                                         *)
(* Text is modelled as a sequence of one-character strings, so that        *)
(* lower(), lstrip('#'), replace(':', '') and startswith() are computed    *)
(* character by character.  A post's content is markup-free text, given as *)
(* the sequence of its whitespace-separated words.  A dict is modelled by  *)
(* the set of keys it holds next to the values of those keys.              *)
(***************************************************************************)
EXTENDS Integers, Sequences, FiniteSets, TLC

VARIABLES
    archive,       \* archive['orderedItems']: the sequence of activities
    wanted_tags,   \* the configured list of wanted tags
    files,         \* posts_dir: output path -> file content
    assets,        \* attachment_dir: base name -> archive media file copied there
    target_posts,  \* main's target_posts: the ids of the posts generated
    idx,           \* position of main's loop in archive['orderedItems']
    status,        \* "running" | "done" | "crashed" | "aborted" | "idle"
    run,           \* 1 for the first run, 2 for the run repeated over its output
    accepted,      \* positions that passed every check of main (line 395) this run
    refused,       \* positions whose write met FileExistsError this run
    files0,        \* posts_dir as it was before the first run
    files1,        \* posts_dir as the first run left it
    assets1,       \* attachment_dir as the first run left it
    troot,         \* make_post_text: position of the post the outer call is given
    tstack,        \* make_post_text: the call stack, innermost frame last
    tout,          \* make_post_text: the value returned by the outer call
    tstatus,       \* "running" | "done" | "RecursionError" | "idle"
    tpass,         \* 1 for the first rendering, 2 for the repeated rendering
    tprev,         \* the thread body the first rendering returned
    tdeep,         \* the deepest call stack seen in this rendering
    tdir,          \* make_post_text: the attachment directory of the rendering
    fpost,         \* the post handed to make_front_matter
    fm             \* the front matter make_front_matter returned for fpost

vars == << archive, wanted_tags, files, assets, target_posts, idx, status, run,
           accepted, refused, files0, files1, assets1, troot, tstack, tout, tstatus,
           tpass, tprev, tdeep, tdir, fpost, fm >>

mainVars   == << wanted_tags, files, assets, target_posts, idx, status, run,
                 accepted, refused, files0, files1, assets1 >>
threadVars == << troot, tstack, tout, tstatus, tpass, tprev, tdeep, tdir >>
fmVars     == << fpost, fm >>

----------------------------------------------------------------------------
(* Bounds of the model and constants of the program.                       *)

MaxArchive == 2        \* activities in an archive of the exporter runs
MaxPosts == 3          \* activities in an archive of the thread renderings
MaxRefs == 3           \* reply ids in all the lists of such an archive
MaxLiveRefs == 2       \* the same, where the end of the rendering is checked
MaxTags == 2           \* entries in one tag list
MaxDepth == 5          \* the interpreter's recursion limit, scaled down

max_title_words == 15
TzOffsetHours == 5     \* America/Indiana/Indianapolis is five hours behind UTC

my_actor == "me"

Min(a, b) == IF a < b THEN a ELSE b
Max(a, b) == IF a > b THEN a ELSE b
Range(s) == {s[i] : i \in DOMAIN s}

RECURSIVE SeqsUpTo(_, _)
SeqsUpTo(S, n) ==
    IF n = 0 THEN {<<>>}
    ELSE LET shorter == SeqsUpTo(S, n - 1)
         IN  shorter \cup {Append(s, x) : s \in {t \in shorter : Len(t) = n - 1}, x \in S}

----------------------------------------------------------------------------
(* Text.                                                                   *)

Punctuation == {":", ".", "#", "'", "\"", "-", "!"}

LowerChar(c) ==
    CASE c = "A" -> "a"
      [] c = "B" -> "b"
      [] c = "C" -> "c"
      [] c = "E" -> "e"
      [] c = "R" -> "r"
      [] OTHER -> c

\* str.lower()
Lower(s) == [i \in DOMAIN s |-> LowerChar(s[i])]

\* str.lstrip('#'): every leading '#' goes
RECURSIVE LStripHash(_)
LStripHash(s) ==
    IF s # <<>> /\ Head(s) = "#" THEN LStripHash(Tail(s)) ELSE s

\* str.rstrip(string.punctuation)
RECURSIVE RStripPunct(_)
RStripPunct(s) ==
    IF s # <<>> /\ s[Len(s)] \in Punctuation
    THEN RStripPunct(SubSeq(s, 1, Len(s) - 1))
    ELSE s

\* str.replace(c, '') for each character of a set
RemoveChars(s, cs) == SelectSeq(s, LAMBDA c : c \notin cs)

StartsWith(s, p) == Len(s) >= Len(p) /\ SubSeq(s, 1, Len(p)) = p
EndsWith(s, c) == s # <<>> /\ s[Len(s)] = c

\* ' '.join(words)
RECURSIVE JoinWords(_)
JoinWords(ws) ==
    IF ws = <<>> THEN <<>>
    ELSE IF Len(ws) = 1 THEN ws[1]
    ELSE ws[1] \o <<" ">> \o JoinWords(Tail(ws))

\* str.replace('  ', ' '): left to right, without overlap
RECURSIVE CollapseDouble(_)
CollapseDouble(s) ==
    IF Len(s) < 2 THEN s
    ELSE IF s[1] = " " /\ s[2] = " " THEN <<" ">> \o CollapseDouble(SubSeq(s, 3, Len(s)))
    ELSE <<s[1]>> \o CollapseDouble(Tail(s))

----------------------------------------------------------------------------
(* Results of a call: the exception it raised, if any, and its value.      *)

Ok(v) == [err |-> "none", val |-> v]
Raise(e) == [err |-> e, val |-> <<>>]

----------------------------------------------------------------------------
(* The archive's records.  An activity holds the keys `keys`, its object   *)
(* the keys `okeys`; the value of a key that is absent is never read.      *)

ActivityKeys == {"actor", "object", "published"}

\* isinstance(apost, dict), 'object' in apost, isinstance(apost['object'], dict)
Usable(a) == a.isdict /\ "object" \in a.keys /\ a.objdict

\* the files of the extracted archive, and os.path.basename of each
MediaOnDisk == {"/m/a.png", "/n/a.png", "/m/v.mp4"}
Basename(url) ==
    CASE url = "/m/a.png" -> "a.png"
      [] url = "/n/a.png" -> "a.png"
      [] url = "/m/v.mp4" -> "v.mp4"
      [] OTHER -> "x.png"

\* one piece of rendered text: a post's prettified content, or the markup of
\* one attachment of it
Piece(k, i, arg) == [k |-> k, post |-> i, arg |-> arg]

----------------------------------------------------------------------------
(* get_post_tags                                                           *)

\* lines 86-90 with the tag made lowercase whatever the caller asks
TagTextLowered(name, lowercase, removeoctothorpe) ==
    IF removeoctothorpe THEN LStripHash(Lower(name)) ELSE Lower(name)

\* lines 86-90
TagText(name, lowercase, removeoctothorpe) ==
    LET a == IF lowercase THEN Lower(name) ELSE name
    IN  IF removeoctothorpe THEN LStripHash(a) ELSE a

get_post_tags(post, lowercase, removeoctothorpe) ==
    IF "tag" \notin post.okeys
    THEN Ok(<<>>)
    ELSE LET broken == {i \in DOMAIN post.tag :
                          \/ "type" \notin post.tag[i].keys
                          \/ /\ post.tag[i].type = "Hashtag"
                             /\ "name" \notin post.tag[i].keys}
             hashtags == SelectSeq(post.tag, LAMBDA t : t.type = "Hashtag")
         IN  IF broken # {}
             THEN Raise("KeyError")
             ELSE Ok([i \in DOMAIN hashtags |->
                        TagText(hashtags[i].name, lowercase, removeoctothorpe)])

----------------------------------------------------------------------------
(* make_post_title, make_post_slug, make_post_filename                     *)

\* the loop of lines 116-127 from word k on: clean the word, keep it, and
\* stop after a word that ends a sentence
RECURSIVE TitleWords(_, _)
TitleWords(ws, k) ==
    IF k > Len(ws) THEN <<>>
    ELSE LET word == RemoveChars(ws[k], {":", "\"", "'"})
         IN  IF EndsWith(word, ".")
             THEN <<word>>
             ELSE <<word>> \o TitleWords(ws, k + 1)

make_post_title(post) ==
    IF "content" \notin post.okeys
    THEN Raise("KeyError")
    ELSE LET firstwords == SubSeq(post.content, 1, Min(Len(post.content), max_title_words))
         IN  Ok(RStripPunct(JoinWords(TitleWords(firstwords, 1))))

make_post_slug(post) ==
    LET t == make_post_title(post)
    IN  IF t.err # "none" THEN t
        ELSE LET title == RemoveChars(Lower(t.val), Punctuation)
                 single == CollapseDouble(title)
             IN  Ok([i \in DOMAIN single |-> IF single[i] = " " THEN "-" ELSE single[i]])

\* datetime.fromisoformat(post['published']).astimezone(ZoneInfo(local_timezone))
LocalTime(post) ==
    IF "published" \notin post.keys THEN Raise("KeyError")
    ELSE IF ~post.published.valid THEN Raise("ValueError")
    ELSE Ok(IF post.published.hour >= TzOffsetHours
            THEN [day |-> post.published.day, hour |-> post.published.hour - TzOffsetHours]
            ELSE [day |-> post.published.day - 1,
                  hour |-> post.published.hour + 24 - TzOffsetHours])

make_post_filename(post) ==
    LET slug == make_post_slug(post)
        postdate == LocalTime(post)
    IN  IF slug.err # "none" THEN slug
        ELSE IF postdate.err # "none" THEN postdate
        ELSE Ok([date |-> postdate.val.day, slug |-> slug.val])

----------------------------------------------------------------------------
(* make_front_matter                                                       *)

\* yaml.dump(list, default_flow_style=False): one "- item" line per item
RECURSIVE YamlBlock(_)
YamlBlock(l) ==
    IF l = <<>> THEN << <<"[", "]">> >>
    ELSE IF Len(l) = 1 THEN << <<"-", " ">> \o l[1] >>
    ELSE << <<"-", " ">> \o l[1] >> \o YamlBlock(Tail(l))

\* yaml.dump(list, default_flow_style=True): "[item, item]" on one line
RECURSIVE YamlFlowItems(_)
YamlFlowItems(l) ==
    IF l = <<>> THEN <<>>
    ELSE IF Len(l) = 1 THEN l[1]
    ELSE l[1] \o <<",", " ">> \o YamlFlowItems(Tail(l))

YamlFlow(l) == <<"[">> \o YamlFlowItems(l) \o <<"]">>

make_front_matter(post) ==
    LET title == make_post_title(post)
        postdate == LocalTime(post)
        posttags == get_post_tags(post, FALSE, TRUE)
    IN  IF title.err # "none" THEN title
        ELSE IF postdate.err # "none" THEN postdate
        ELSE IF posttags.err # "none" THEN posttags
        ELSE Ok([layout |-> "single",
                 published |-> "false",
                 title |-> title.val,
                 date |-> postdate.val,
                 excerpt |-> "...",
                 categories |-> YamlBlock(posttags.val),
                 tags |-> YamlFlow(posttags.val)])

----------------------------------------------------------------------------
(* process_attachments: the markup of a post's attachments, and the        *)
(* attachment directory after the copies.  An attachment whose file is     *)
(* not in the extracted archive is passed over; one that is neither image  *)
(* nor video gets no markup and is copied all the same.                    *)

MediaKind(mediaType) ==
    CASE mediaType = "image/png" -> "figure"
      [] mediaType = "video/mp4" -> "video"
      [] OTHER -> "none"

RECURSIVE AttachmentsFrom(_, _, _, _)
AttachmentsFrom(atts, k, i, acc) ==
    IF k > Len(atts) THEN acc
    ELSE LET att == atts[k]
             base == Basename(att.url)
         IN  IF att.url \notin MediaOnDisk
             THEN AttachmentsFrom(atts, k + 1, i, acc)
             ELSE AttachmentsFrom(atts, k + 1, i,
                    [text |-> IF MediaKind(att.mediaType) = "none"
                              THEN acc.text
                              ELSE Append(acc.text, Piece(MediaKind(att.mediaType), i, base)),
                     dir |-> [b \in DOMAIN acc.dir \cup {base} |->
                                IF b = base THEN att.url ELSE acc.dir[b]]])

process_attachments(post, i, dir) ==
    IF "attachment" \notin post.okeys
    THEN [text |-> <<>>, dir |-> dir]
    ELSE AttachmentsFrom(post.attachment, 1, i, [text |-> <<>>, dir |-> dir])

----------------------------------------------------------------------------
(* find_post_by_id: the position in the archive of the post found, 0 for   *)
(* the empty dict.                                                         *)

\* the same scan with a post passed over only when actor and attributedTo
\* both differ from mine, and with no post passed over for its owner
RECURSIVE FindFromBothDiffer(_, _, _)
FindFromBothDiffer(arch, postid, k) ==
    IF k > Len(arch) THEN Ok(0)
    ELSE LET apost == arch[k]
         IN  IF ~Usable(apost) \/ "id" \notin apost.okeys
             THEN FindFromBothDiffer(arch, postid, k + 1)
             ELSE IF "actor" \notin apost.keys THEN Raise("KeyError")
             ELSE IF "attributedTo" \notin apost.okeys THEN Raise("KeyError")
             ELSE IF apost.actor # my_actor /\ apost.attributedTo # my_actor
             THEN FindFromBothDiffer(arch, postid, k + 1)
             ELSE IF apost.id = postid THEN Ok(k)
             ELSE FindFromBothDiffer(arch, postid, k + 1)

RECURSIVE FindFromAnyOwner(_, _, _)
FindFromAnyOwner(arch, postid, k) ==
    IF k > Len(arch) THEN Ok(0)
    ELSE LET apost == arch[k]
         IN  IF ~Usable(apost) \/ "id" \notin apost.okeys
             THEN FindFromAnyOwner(arch, postid, k + 1)
             ELSE IF "actor" \notin apost.keys THEN Raise("KeyError")
             ELSE IF apost.id = postid THEN Ok(k)
             ELSE FindFromAnyOwner(arch, postid, k + 1)

RECURSIVE FindFrom(_, _, _)
FindFrom(arch, postid, k) ==
    IF k > Len(arch) THEN Ok(0)
    ELSE LET apost == arch[k]
         IN  IF ~Usable(apost) \/ "id" \notin apost.okeys
             THEN FindFrom(arch, postid, k + 1)
             ELSE IF "actor" \notin apost.keys THEN Raise("KeyError")
             ELSE IF apost.actor # my_actor THEN FindFrom(arch, postid, k + 1)
             ELSE IF "attributedTo" \notin apost.okeys THEN Raise("KeyError")
             ELSE IF apost.attributedTo # my_actor THEN FindFrom(arch, postid, k + 1)
             ELSE IF apost.id = postid THEN Ok(k)
             ELSE FindFrom(arch, postid, k + 1)

find_post_by_id(arch, postid) == FindFrom(arch, postid, 1)

\* lines 299-305: the reply ids make_post_text walks
ReplyItems(post) ==
    IF "replies" \in post.okeys /\ post.repliesWF THEN post.items ELSE <<>>

----------------------------------------------------------------------------
(* make_post_text, as one call: the text, the attachment directory after   *)
(* it, and the exception that ended it.  `path` holds the posts of the     *)
(* calls in progress: a call for one of them repeats itself without end,   *)
(* which the interpreter ends with RecursionError.                         *)

RECURSIVE make_post_text_in(_, _, _, _)
RECURSIVE RepliesFrom(_, _, _, _, _)

RepliesFrom(arch, items, k, acc, path) ==
    IF k > Len(items) \/ acc.err # "none" THEN acc
    ELSE LET replypost == find_post_by_id(arch, items[k])
         IN  IF replypost.err # "none"
             THEN [acc EXCEPT !.err = replypost.err]
             ELSE IF replypost.val = 0
             THEN RepliesFrom(arch, items, k + 1, acc, path)
             ELSE LET sub == make_post_text_in(arch, replypost.val, acc.dir, path)
                  IN  RepliesFrom(arch, items, k + 1,
                        [err |-> sub.err, text |-> acc.text \o sub.text, dir |-> sub.dir],
                        path)

make_post_text_in(arch, i, dir, path) ==
    LET post == arch[i]
    IN  IF i \in path THEN [err |-> "RecursionError", text |-> <<>>, dir |-> dir]
        ELSE IF "content" \notin post.okeys
        THEN [err |-> "KeyError", text |-> <<>>, dir |-> dir]
        ELSE LET att == process_attachments(post, i, dir)
             IN  RepliesFrom(arch, ReplyItems(post), 1,
                    [err |-> "none",
                     text |-> <<Piece("content", i, "")>> \o att.text,
                     dir |-> att.dir],
                    path \cup {i})

make_post_text(arch, i, dir) == make_post_text_in(arch, i, dir, {})

----------------------------------------------------------------------------
(* main: one turn of the loop over archive['orderedItems'], for the        *)
(* activity at position i.  `kind` tells how the turn ended, `acc` whether *)
(* the activity passed every check (line 395); the rest is the state the   *)
(* turn leaves, which an exception raised late in the turn does not undo.  *)

Turn(kind, acc, fs, dir, target) ==
    [kind |-> kind, acc |-> acc, files |-> fs, dir |-> dir, target |-> target]

\* lines 384-385: set(wanted_tags) & set(posttags)
TagsOverlap(wanted, posttags) == Range(wanted) \cap Range(posttags) # {}

\* line 416, open(filename, "x"): FileExistsError when the path exists
OpenInsteadOfCreate(fs, filename) == FALSE
FileExists(fs, filename) == filename \in DOMAIN fs

\* lines 397-421, for an activity that passed the checks
BuildAndWrite(arch, i, fs, dir, target) ==
    LET apost == arch[i]
        front == make_front_matter(apost)
        body == make_post_text(arch, i, dir)
        filename == make_post_filename(apost)
        text == [by |-> i, fm |-> front.val, body |-> body.text, link |-> apost.url]
    IN  IF front.err # "none" THEN Turn(front.err, TRUE, fs, dir, target)
        ELSE IF body.err # "none" THEN Turn(body.err, TRUE, fs, body.dir, target)
        ELSE IF "url" \notin apost.okeys THEN Turn("KeyError", TRUE, fs, body.dir, target)
        ELSE IF FileExists(fs, filename.val)
        THEN Turn("exists", TRUE, fs, body.dir, target)
        ELSE LET written == [f \in DOMAIN fs \cup {filename.val} |->
                               IF f = filename.val THEN text ELSE fs[f]]
             IN  IF "id" \notin apost.okeys
                 THEN Turn("KeyError", TRUE, written, body.dir, target)
                 ELSE Turn("written", TRUE, written, body.dir, Append(target, apost.id))

\* lines 370-371: the post answers another post
IsReplyKeyPresent(apost) == "inReplyTo" \in apost.okeys
IsReplyOfActivity(apost) == "inReplyTo" \in apost.keys /\ apost.inReplyTo # 0
IsReply(apost) == "inReplyTo" \in apost.okeys /\ apost.inReplyTo # 0

\* lines 355-395, then BuildAndWrite
LoopBody(arch, wanted, i, fs, dir, target) ==
    LET apost == arch[i]
        skip == Turn("skip", FALSE, fs, dir, target)
        keyerror == Turn("KeyError", FALSE, fs, dir, target)
        posttags == get_post_tags(apost, TRUE, FALSE)
        title == make_post_title(apost)
    IN  IF ~Usable(apost) THEN skip
        ELSE IF "actor" \notin apost.keys THEN keyerror
        ELSE IF apost.actor # my_actor THEN skip
        ELSE IF "attributedTo" \notin apost.okeys THEN keyerror
        ELSE IF apost.attributedTo # my_actor THEN skip
        ELSE IF IsReply(apost) THEN skip
        ELSE IF posttags.err # "none" THEN keyerror
        ELSE IF wanted # <<>> /\ posttags.val = <<>> THEN skip
        ELSE IF wanted # <<>> /\ ~TagsOverlap(wanted, posttags.val) THEN skip
        ELSE IF title.err # "none" THEN keyerror
        ELSE IF StartsWith(title.val, <<"R", "E", ":", " ">>) THEN skip
        ELSE BuildAndWrite(arch, i, fs, dir, target)

----------------------------------------------------------------------------
(* The archives the exporter is run on.  An activity is the well-formed    *)
(* root post Base, or Base with one of its fields changed.                 *)

Hashtag(name) == [keys |-> {"type", "name"}, type |-> "Hashtag", name |-> name]
Mention(name) == [keys |-> {"type", "name"}, type |-> "Mention", name |-> name]
Untyped(name) == [keys |-> {"name"}, type |-> "Hashtag", name |-> name]

Image(url) == [url |-> url, mediaType |-> "image/png"]
Video(url) == [url |-> url, mediaType |-> "video/mp4"]

At(day, hour) == [valid |-> TRUE, day |-> day, hour |-> hour]
NotADate == [valid |-> FALSE, day |-> 0, hour |-> 0]
Noon == At(2, 12)          \* local day 2
NextNight == At(3, 3)      \* 03:00 UTC of day 3: still local day 2
NextNoon == At(3, 12)      \* local day 3

Sentence == << <<"a">>, <<"b", ".">>, <<"e">> >>     \* title "a b",  slug "a-b"
Shouted == << <<"A">>, <<"b", ".">> >>               \* title "A b",  slug "a-b"
Boost == << <<"R", "E", ":">>, <<"a">> >>            \* content "RE: a"

Base ==
    [isdict |-> TRUE, keys |-> ActivityKeys, objdict |-> TRUE,
     okeys |-> {"id", "attributedTo", "content", "url", "tag"},
     actor |-> "me", attributedTo |-> "me", id |-> 0, url |-> 0, inReplyTo |-> 0,
     tag |-> <<Hashtag(<<"#", "c">>)>>, content |-> Sentence, published |-> Noon,
     items |-> <<>>, repliesWF |-> TRUE, attachment |-> <<>>]

\* the key that holds a field: the reply ids are held under 'replies'
KeyOf(field) == IF field = "items" THEN "replies" ELSE field
With(r, field, v) == [r EXCEPT !.okeys = @ \cup {KeyOf(field)}, ![field] = v]
Without(r, field) == [r EXCEPT !.okeys = @ \ {KeyOf(field)}]

Shapes(ids) ==
    {Base}
    \cup {[Base EXCEPT !.actor = "other"], [Base EXCEPT !.attributedTo = "other"]}
    \cup {With(Base, "inReplyTo", j) : j \in {0, 1}}
    \cup {Without(Base, "tag"), [Base EXCEPT !.tag = <<Hashtag(<<"#", "C">>)>>]}
    \cup {[Base EXCEPT !.content = c] : c \in {Shouted, Boost}}
    \cup {[Base EXCEPT !.published = t] : t \in {NextNight, NextNoon, NotADate}}
    \cup {With(Base, "items", <<j>>) : j \in ids}
    \cup {With(Base, "attachment", <<a>>) : a \in {Image("/m/a.png"), Video("/n/a.png")}}
    \cup {[Base EXCEPT !.isdict = FALSE], [Base EXCEPT !.keys = @ \ {"actor"}],
          [Base EXCEPT !.keys = @ \ {"published"}]}
    \cup {Without(Base, k) : k \in {"id", "content", "url"}}

\* every activity carries the id and the url of its place in the archive
Numbered(shapes) == [i \in DOMAIN shapes |-> [shapes[i] EXCEPT !.id = i, !.url = i]]

WantedLists == {<<>>, << <<"#", "c">> >>, << <<"#", "C">> >>}

\* a post file written by hand before the run, at the path of Base
ManualFile ==
    [by |-> 0,
     fm |-> [layout |-> "single", published |-> "true", title |-> <<"m">>,
             date |-> [day |-> 0, hour |-> 0], excerpt |-> "...",
             categories |-> <<>>, tags |-> <<>>],
     body |-> <<>>, link |-> 0]
BasePath == [date |-> 2, slug |-> <<"a", "-", "b">>]
NoFiles == [f \in {} |-> ManualFile]
HandMade == [f \in {BasePath} |-> ManualFile]

\* the wanted tags and the posts directory of a run
Setups ==
    {<<w, NoFiles>> : w \in WantedLists} \cup {<< << <<"#", "c">> >>, HandMade >>}
NoAssets == [b \in {} |-> ""]

ThreadIdle ==
    /\ troot = 0 /\ tstack = <<>> /\ tout = <<>> /\ tstatus = "idle"
    /\ tpass = 0 /\ tprev = <<>> /\ tdeep = 0 /\ tdir = NoAssets
FmIdle == fpost = Base /\ fm = Raise("idle")

Init ==
    /\ \E n \in 0..MaxArchive :
         \E shapes \in [1..n -> Shapes(1..MaxArchive)] : archive = Numbered(shapes)
    /\ \E setup \in Setups : wanted_tags = setup[1] /\ files = setup[2]
    /\ files0 = files
    /\ files1 = NoFiles
    /\ assets = NoAssets
    /\ assets1 = NoAssets
    /\ target_posts = <<>>
    /\ idx = 1
    /\ status = "running"
    /\ run = 1
    /\ accepted = {}
    /\ refused = {}
    /\ ThreadIdle
    /\ FmIdle

\* the turn main's loop is about to take
ThisTurn == LoopBody(archive, wanted_tags, idx, files, assets, target_posts)

InLoop == status = "running" /\ idx <= Len(archive)

Took(t) ==
    /\ files' = t.files
    /\ assets' = t.dir
    /\ target_posts' = t.target
    /\ accepted' = IF t.acc THEN accepted \cup {idx} ELSE accepted

\* a `continue` of lines 357-393
SkipPost ==
    /\ InLoop
    /\ \E t \in {ThisTurn} :
        /\ t.kind = "skip"
        /\ Took(t)
        /\ idx' = idx + 1
        /\ UNCHANGED << archive, wanted_tags, status, run, refused, files0, files1, assets1 >>
        /\ UNCHANGED threadVars /\ UNCHANGED fmVars

\* lines 397-419: the post's file is created and its id recorded
WritePost ==
    /\ InLoop
    /\ \E t \in {ThisTurn} :
        /\ t.kind = "written"
        /\ Took(t)
        /\ idx' = idx + 1
        /\ UNCHANGED << archive, wanted_tags, status, run, refused, files0, files1, assets1 >>
        /\ UNCHANGED threadVars /\ UNCHANGED fmVars

\* lines 420-421: FileExistsError
RefuseExisting ==
    /\ InLoop
    /\ \E t \in {ThisTurn} :
        /\ t.kind = "exists"
        /\ Took(t)
        /\ refused' = refused \cup {idx}
        /\ idx' = idx + 1
        /\ UNCHANGED << archive, wanted_tags, status, run, files0, files1, assets1 >>
        /\ UNCHANGED threadVars /\ UNCHANGED fmVars

\* an exception that main does not catch ends the run with a traceback
Crash ==
    /\ InLoop
    /\ \E t \in {ThisTurn} :
        /\ t.kind \in {"KeyError", "RecursionError"}
        /\ Took(t)
        /\ status' = "crashed"
        /\ UNCHANGED << archive, wanted_tags, idx, run, refused, files0, files1, assets1 >>
        /\ UNCHANGED threadVars /\ UNCHANGED fmVars

\* lines 425-426: ValueError ends the run with its message
Abort ==
    /\ InLoop
    /\ \E t \in {ThisTurn} :
        /\ t.kind = "ValueError"
        /\ Took(t)
        /\ status' = "aborted"
        /\ UNCHANGED << archive, wanted_tags, idx, run, refused, files0, files1, assets1 >>
        /\ UNCHANGED threadVars /\ UNCHANGED fmVars

\* line 423: the loop is over, the total is printed
Finish ==
    /\ status = "running"
    /\ idx > Len(archive)
    /\ status' = "done"
    /\ UNCHANGED << archive, wanted_tags, files, assets, target_posts, idx, run,
                    accepted, refused, files0, files1, assets1 >>
    /\ UNCHANGED threadVars /\ UNCHANGED fmVars

\* the exporter is started again over the same archive and the same directories
Rerun ==
    /\ status \in {"done", "crashed", "aborted"}
    /\ run = 1
    /\ run' = 2
    /\ files1' = files
    /\ assets1' = assets
    /\ target_posts' = <<>>
    /\ accepted' = {}
    /\ refused' = {}
    /\ idx' = 1
    /\ status' = "running"
    /\ UNCHANGED << archive, wanted_tags, files, assets, files0 >>
    /\ UNCHANGED threadVars /\ UNCHANGED fmVars

Next ==
    \/ SkipPost
    \/ WritePost
    \/ RefuseExisting
    \/ Crash
    \/ Abort
    \/ Finish
    \/ Rerun

Spec == Init /\ [][Next]_vars

----------------------------------------------------------------------------
(* Properties of the exporter's runs.                                      *)

Positions == 1..Len(archive)

\* the activity is the configured identity's: actor and attributedTo match
Owned(a) ==
    /\ Usable(a)
    /\ "actor" \in a.keys /\ a.actor = my_actor
    /\ "attributedTo" \in a.okeys /\ a.attributedTo = my_actor

\* the positions whose post is the content of some output file
FiledPosts == {files[f].by : f \in DOMAIN files}

\* the positions whose content is part of the thread of some output file
InlinedPosts ==
    UNION {{files[f].body[k].post : k \in DOMAIN files[f].body} : f \in DOMAIN files}

\* C1: the exporter never overwrites.  No step changes or removes a file
\* of the posts directory; and when the turn of an accepted post reaches
\* the write and the post's path exists, the write is refused, no file
\* changes, the id is not recorded, and the loop moves on to the next
\* activity.
C1_NeverOverwrites ==
    [][ /\ \A f \in DOMAIN files : f \in DOMAIN files' /\ files'[f] = files[f]
        /\ ( /\ InLoop
             /\ status' = "running"
             /\ idx \in accepted'
             /\ make_post_filename(archive[idx]).val \in DOMAIN files )
           => /\ idx \in refused'
              /\ files' = files
              /\ target_posts' = target_posts
              /\ idx' = idx + 1
      ]_vars

\* C1 witness: the first post met a file written by hand and was refused,
\* and the run went on to write the second.
C1_Witness ==
    /\ run = 1 /\ status = "done"
    /\ files0 = HandMade
    /\ refused = {1}
    /\ target_posts = <<2>>
    /\ files[BasePath] = ManualFile

\* C2, as claimed: in the second run over the same archive and directories
\* no file is created or changed, every post accepted is refused as
\* existing, and nothing is counted as generated.
C2_SecondRunAddsNothing ==
    run = 2 =>
        /\ files = files1
        /\ target_posts = <<>>
        /\ \A i \in accepted : i < idx => i \in refused

\* the archive holds no owned post without an id
EveryPostHasId == \A i \in Positions : Usable(archive[i]) => "id" \in archive[i].okeys

\* C2, where every post has an id: the repeated run adds nothing, and
\* leaves the attachment directory as the first run left it.
C2_SecondRunAddsNothingWithIds ==
    (run = 2 /\ EveryPostHasId) =>
        /\ files = files1
        /\ status # "running" => assets = assets1
        /\ target_posts = <<>>
        /\ \A i \in accepted : i < idx => i \in refused

\* the names of the post's Hashtag entries, as the archive gives them
HashtagNames(a) ==
    IF "tag" \notin a.okeys THEN {}
    ELSE {a.tag[k].name : k \in {j \in DOMAIN a.tag : a.tag[j].type = "Hashtag"}}

TagsWellFormed(a) ==
    "tag" \in a.okeys => \A k \in DOMAIN a.tag : a.tag[k].keys = {"type", "name"}

\* the derived title exists and does not start with "RE: "
NotABoost(a) ==
    /\ "content" \in a.okeys
    /\ ~StartsWith(make_post_title(a).val, <<"R", "E", ":", " ">>)

RootOfMine(a) ==
    /\ Owned(a)
    /\ "inReplyTo" \in a.okeys => a.inReplyTo = 0

\* C4, as claimed: an owned root post whose tags intersect the non-empty
\* wanted list, and whose title does not start with "RE: ", is accepted.
C4_TaggedRootsAccepted ==
    \A i \in Positions :
        ( /\ i < idx
          /\ RootOfMine(archive[i])
          /\ TagsWellFormed(archive[i])
          /\ wanted_tags # <<>>
          /\ HashtagNames(archive[i]) \cap Range(wanted_tags) # {}
          /\ NotABoost(archive[i]) )
        => i \in accepted

\* C4, amended: the tags are compared lowercased, with their '#', against
\* the wanted list as it is configured.
C4_LoweredTagsAccepted ==
    \A i \in Positions :
        ( /\ i < idx
          /\ RootOfMine(archive[i])
          /\ TagsWellFormed(archive[i])
          /\ wanted_tags # <<>>
          /\ {Lower(n) : n \in HashtagNames(archive[i])} \cap Range(wanted_tags) # {}
          /\ NotABoost(archive[i]) )
        => i \in accepted

\* C4 witness: a root whose inReplyTo is present and empty, and a root
\* tagged "#C" under the wanted tag "#c", were both accepted.
C4_Witness ==
    /\ Len(archive) = 2 /\ idx = 3
    /\ wanted_tags = << <<"#", "c">> >>
    /\ "inReplyTo" \in archive[1].okeys /\ archive[1].inReplyTo = 0
    /\ HashtagNames(archive[2]) = {<<"#", "C">>}
    /\ accepted = {1, 2}

\* C5: a post with a non-empty inReplyTo is never accepted as a root: no
\* output file is its own, and its id is not recorded as generated.
C5_RepliesAreNotRoots ==
    \A i \in Positions :
        (Usable(archive[i]) /\ "inReplyTo" \in archive[i].okeys /\ archive[i].inReplyTo # 0)
        => /\ i \notin accepted
           /\ i \notin FiledPosts
           /\ "id" \in archive[i].okeys => archive[i].id \notin Range(target_posts)

\* C5 witness: the content of a reply reached the output inside the file
\* of the root that lists it.
C5_Witness ==
    /\ run = 1 /\ status = "done"
    /\ \E i \in Positions :
        /\ "inReplyTo" \in archive[i].okeys /\ archive[i].inReplyTo # 0
        /\ i \in InlinedPosts
        /\ i \notin FiledPosts

\* the record lacks a key the exporter reads
Malformed(a) ==
    \/ ~Usable(a)
    \/ ~({"actor", "published"} \subseteq a.keys)
    \/ ~({"id", "attributedTo", "content", "url"} \subseteq a.okeys)
    \/ ~a.published.valid

\* C6, as claimed: a malformed record does not end the run.
C6_MalformedIsSkipped ==
    status \in {"crashed", "aborted"} => ~Malformed(archive[idx])

\* C7, as claimed: after a run into an empty posts directory every accepted
\* root has its own output file, and no two accepted roots share a path.
C7_OneFilePerRoot ==
    (run = 1 /\ status = "done" /\ files0 = NoFiles) =>
        /\ accepted \subseteq FiledPosts
        /\ \A i, j \in accepted :
              i # j => make_post_filename(archive[i]).val # make_post_filename(archive[j]).val

----------------------------------------------------------------------------
(* make_post_text, call by call.  A frame of the call stack holds the post *)
(* of the call, the body text built so far and the place of the loop over  *)
(* the reply ids; the interpreter's recursion limit is MaxDepth frames.    *)

\* lines 282-294: the post's content, then the markup of its attachments
OwnText(i, dir) == <<Piece("content", i, "")>> \o process_attachments(archive[i], i, dir).text

Frame(i, dir) == [post |-> i, k |-> 1, text |-> OwnText(i, dir)]

Top == tstack[Len(tstack)]
TopItems == ReplyItems(archive[Top.post])
Rendering == tstatus = "running" /\ tstack # <<>>
AtReply == Rendering /\ Top.k <= Len(TopItems)

\* line 307: the loop moves to the next reply id
NextReply(frame) == [frame EXCEPT !.k = @ + 1]

\* line 313: the reply's thread is added to the caller's body text
AddReplyInFront(frame, replytext) == [frame EXCEPT !.text = replytext \o @, !.k = @ + 1]
AddReply(frame, replytext) == [frame EXCEPT !.text = @ \o replytext, !.k = @ + 1]

Replace(stack, frame) == [stack EXCEPT ![Len(stack)] = frame]

\* line 282 of the call for post i: post['object']['content']
HasContent(i) == "content" \in archive[i].okeys

\* lines 309-311: the reply id is in no post of mine
SkipUnresolved ==
    /\ AtReply
    /\ \E replypost \in {find_post_by_id(archive, TopItems[Top.k])} :
        /\ replypost.err = "none"
        /\ replypost.val = 0
    /\ tstack' = Replace(tstack, NextReply(Top))
    /\ UNCHANGED << troot, tout, tstatus, tpass, tprev, tdeep, tdir >>
    /\ UNCHANGED archive /\ UNCHANGED mainVars /\ UNCHANGED fmVars

\* line 313: make_post_text calls itself for the reply found
Descend ==
    /\ AtReply
    /\ Len(tstack) < MaxDepth
    /\ \E replypost \in {find_post_by_id(archive, TopItems[Top.k])} :
        /\ replypost.err = "none"
        /\ replypost.val # 0
        /\ HasContent(replypost.val)
        /\ tstack' = Append(tstack, Frame(replypost.val, tdir))
        /\ tdir' = process_attachments(archive[replypost.val], replypost.val, tdir).dir
    /\ tdeep' = Max(tdeep, Len(tstack) + 1)
    /\ UNCHANGED << troot, tout, tstatus, tpass, tprev >>
    /\ UNCHANGED archive /\ UNCHANGED mainVars /\ UNCHANGED fmVars

\* the call for the reply found would pass the recursion limit
Overflow ==
    /\ AtReply
    /\ Len(tstack) = MaxDepth
    /\ \E replypost \in {find_post_by_id(archive, TopItems[Top.k])} :
        /\ replypost.err = "none"
        /\ replypost.val # 0
    /\ tstatus' = "RecursionError"
    /\ UNCHANGED << troot, tstack, tout, tpass, tprev, tdeep, tdir >>
    /\ UNCHANGED archive /\ UNCHANGED mainVars /\ UNCHANGED fmVars

\* find_post_by_id meets a post without actor or attributedTo, or the reply
\* found has no content
KeyErrorInThread ==
    /\ AtReply
    /\ \E replypost \in {find_post_by_id(archive, TopItems[Top.k])} :
        \/ replypost.err = "KeyError"
        \/ /\ replypost.err = "none"
           /\ replypost.val # 0
           /\ Len(tstack) < MaxDepth
           /\ ~HasContent(replypost.val)
    /\ tstatus' = "KeyError"
    /\ UNCHANGED << troot, tstack, tout, tpass, tprev, tdeep, tdir >>
    /\ UNCHANGED archive /\ UNCHANGED mainVars /\ UNCHANGED fmVars

\* line 315: a call returns its body text to its caller
Return ==
    /\ Rendering
    /\ Top.k > Len(TopItems)
    /\ IF Len(tstack) = 1
       THEN /\ tout' = Top.text
            /\ tstatus' = "done"
            /\ tstack' = <<>>
       ELSE /\ tstack' = Replace(SubSeq(tstack, 1, Len(tstack) - 1),
                                 AddReply(tstack[Len(tstack) - 1], Top.text))
            /\ UNCHANGED << tout, tstatus >>
    /\ UNCHANGED << troot, tpass, tprev, tdeep, tdir >>
    /\ UNCHANGED archive /\ UNCHANGED mainVars /\ UNCHANGED fmVars

\* the same post of the same archive is rendered again
RenderAgain ==
    /\ tstatus = "done"
    /\ tpass = 1
    /\ tpass' = 2
    /\ tprev' = tout
    /\ tout' = <<>>
    /\ tstack' = <<Frame(troot, tdir)>>
    /\ tdir' = process_attachments(archive[troot], troot, tdir).dir
    /\ tdeep' = 1
    /\ tstatus' = "running"
    /\ UNCHANGED troot
    /\ UNCHANGED archive /\ UNCHANGED mainVars /\ UNCHANGED fmVars

----------------------------------------------------------------------------
(* The archives the threads are rendered from: MaxPosts posts, each with   *)
(* the id of its place, at most MaxRefs reply ids in all their lists, and  *)
(* at most one post that is not a plain post of mine.                      *)

RECURSIVE ReplyListings(_, _, _)
ReplyListings(ids, n, refs) ==
    IF n = 0 THEN {<<>>}
    ELSE UNION {{<<l>> \o rest : rest \in ReplyListings(ids, n - 1, refs - Len(l))} :
                  l \in SeqsUpTo(ids, refs)}

Plain(l) == IF l = <<>> THEN Base ELSE With(Base, "items", l)

Oddities == {"plain", "actor", "attributedTo", "noactor", "nocontent", "image"}

Odd(r, kind) ==
    CASE kind = "actor" -> [r EXCEPT !.actor = "other"]
      [] kind = "attributedTo" -> [r EXCEPT !.attributedTo = "other"]
      [] kind = "noactor" -> [r EXCEPT !.keys = @ \ {"actor"}]
      [] kind = "nocontent" -> Without(r, "content")
      [] kind = "image" -> With(r, "attachment", <<Image("/m/a.png")>>)
      [] OTHER -> r

ThreadArchive(ls, at, kind) ==
    Numbered([i \in DOMAIN ls |-> IF i = at THEN Odd(Plain(ls[i]), kind) ELSE Plain(ls[i])])

InitThreadWith(refs) ==
    /\ \E ls \in ReplyListings(1..MaxPosts, MaxPosts, refs), at \in 1..MaxPosts,
          kind \in Oddities :
            archive = ThreadArchive(ls, at, kind)
    \* the post a rendering starts from passed main's checks: it is mine and
    \* has content
    /\ troot = 1
    /\ Owned(archive[troot]) /\ HasContent(troot)
    /\ tstack = <<Frame(troot, NoAssets)>>
    /\ tdir = process_attachments(archive[troot], troot, NoAssets).dir
    /\ tout = <<>>
    /\ tstatus = "running"
    /\ tpass = 1
    /\ tprev = <<>>
    /\ tdeep = 1
    /\ wanted_tags = <<>> /\ files = NoFiles /\ files0 = NoFiles /\ files1 = NoFiles
    /\ assets = NoAssets /\ assets1 = NoAssets /\ target_posts = <<>> /\ idx = 1
    /\ status = "idle" /\ run = 0 /\ accepted = {} /\ refused = {}
    /\ FmIdle

InitThread == InitThreadWith(MaxRefs)
InitLive == InitThreadWith(MaxLiveRefs)

NextThread ==
    \/ SkipUnresolved
    \/ Descend
    \/ Overflow
    \/ KeyErrorInThread
    \/ Return
    \/ RenderAgain

SpecThread == InitThread /\ [][NextThread]_vars

\* the interpreter runs a call in progress on to its end
FairThread == InitLive /\ [][NextThread]_vars /\ WF_vars(NextThread)

----------------------------------------------------------------------------
(* Properties of make_post_text and find_post_by_id.                       *)

\* every piece of text of the rendering: of the calls in progress, and of
\* the value returned
PiecesSoFar ==
    Range(tout) \cup UNION {Range(tstack[d].text) : d \in DOMAIN tstack}

\* C3: no text of a post that is not mine is inlined, at any depth, and
\* find_post_by_id returns the empty dict or a post of the archive that
\* has the id asked for and is mine.
C3_OnlyMineInlined ==
    /\ \A piece \in PiecesSoFar : Owned(archive[piece.post])
    /\ \A postid \in 1..MaxPosts :
          LET found == find_post_by_id(archive, postid)
          IN  (found.err = "none" /\ found.val # 0)
              => /\ found.val \in DOMAIN archive
                 /\ "id" \in archive[found.val].okeys
                 /\ archive[found.val].id = postid
                 /\ Owned(archive[found.val])

\* C3 witness: a reply of mine was inlined whose own reply list names a
\* post that is not mine, and the thread was returned.
C3_Witness ==
    /\ tstatus = "done"
    /\ \E j, i \in DOMAIN archive :
        /\ j # troot /\ Owned(archive[j])
        /\ \E k \in DOMAIN tout : tout[k].post = j
        /\ ~Owned(archive[i])
        /\ i \in Range(ReplyItems(archive[j]))

\* the post a reply id stands for: the first post of mine with that id
Resolved(postid) ==
    LET mine == {p \in DOMAIN archive :
                    Owned(archive[p]) /\ "id" \in archive[p].okeys /\ archive[p].id = postid}
    IN  IF mine = {} THEN 0 ELSE CHOOSE p \in mine : \A q \in mine : p <= q

\* the thread of post i in depth-first pre-order: the post, then the whole
\* thread of each resolved reply in the order listed, to `depth` levels
RECURSIVE PreOrder(_, _)
RECURSIVE PreOrderOfReplies(_, _, _)
PreOrderOfReplies(items, k, depth) ==
    IF k > Len(items) THEN <<>>
    ELSE (IF Resolved(items[k]) = 0 THEN <<>> ELSE PreOrder(Resolved(items[k]), depth))
         \o PreOrderOfReplies(items, k + 1, depth)
PreOrder(i, depth) ==
    IF depth = 0 THEN <<>>
    ELSE <<Piece("content", i, "")>> \o process_attachments(archive[i], i, NoAssets).text
         \o PreOrderOfReplies(ReplyItems(archive[i]), 1, depth - 1)

\* C8: the thread returned is the depth-first pre-order of the replies.
C8_DepthFirstPreOrder ==
    tstatus = "done" => tout = PreOrder(troot, MaxDepth)

\* C8 witness: the first reply's own reply comes before the second reply.
C8_Witness ==
    /\ tstatus = "done"
    /\ ReplyItems(archive[1]) = <<2, 3>>
    /\ ReplyItems(archive[2]) = <<3>>
    /\ [k \in DOMAIN tout |-> tout[k].post] = <<1, 2, 3, 3>>

\* the posts the replies of post i resolve to
Children(i) ==
    {find_post_by_id(archive, postid).val : postid \in
        {x \in Range(ReplyItems(archive[i])) : find_post_by_id(archive, x).err = "none"}} \ {0}

RECURSIVE ReachableFrom(_, _)
ReachableFrom(S, n) ==
    IF n = 0 THEN S ELSE ReachableFrom(S \cup UNION {Children(i) : i \in S}, n - 1)

Descendants(i) == ReachableFrom(Children(i), Len(archive))

\* no post the rendering can reach is among its own descendants
Acyclic == \A i \in ReachableFrom({troot}, Len(archive)) : i \notin Descendants(i)

OwnedCount == Cardinality({i \in DOMAIN archive : Owned(archive[i])})

Ended == tstatus = "KeyError" \/ (tstatus = "done" /\ tpass = 2)

\* C10: where the resolvable replies hold no cycle, the rendering ends, no
\* more calls are in progress at once than the archive has posts of mine,
\* and the second rendering returns the body the first returned.
C10_AcyclicTerminates ==
    /\ [](Acyclic => /\ tstatus # "RecursionError"
                     /\ Len(tstack) <= OwnedCount
                     /\ (tstatus = "done" /\ tpass = 2) => tout = tprev)
    /\ (Acyclic => <>Ended)

\* C10 witness: a chain of three posts of mine was rendered twice, three
\* calls deep.
C10_Witness ==
    /\ Acyclic
    /\ tstatus = "done" /\ tpass = 2
    /\ tdeep = 3 /\ OwnedCount = 3
    /\ Len(tout) = 3

----------------------------------------------------------------------------
(* make_front_matter, applied to one post.                                 *)

FmTagEntries ==
    {Hashtag(<<"#", "c">>), Hashtag(<<"#", "C">>), Hashtag(<<"#", "#", "d">>),
     Mention(<<"#", "c">>), Untyped(<<"#", "c">>)}

FmPosts ==
    {Without(Base, "tag")} \cup {[Base EXCEPT !.tag = t] : t \in SeqsUpTo(FmTagEntries, MaxTags)}

InitFm ==
    /\ \E p \in FmPosts, t \in {Noon, NextNight, NotADate}, dated, worded \in BOOLEAN :
         fpost = [p EXCEPT !.published = t,
                           !.keys = IF dated THEN @ ELSE @ \ {"published"},
                           !.okeys = IF worded THEN @ ELSE @ \ {"content"}]
    /\ fm = Raise("idle")
    /\ archive = <<>>
    /\ wanted_tags = <<>> /\ files = NoFiles /\ files0 = NoFiles /\ files1 = NoFiles
    /\ assets = NoAssets /\ assets1 = NoAssets /\ target_posts = <<>> /\ idx = 1
    /\ status = "idle" /\ run = 0 /\ accepted = {} /\ refused = {}
    /\ ThreadIdle

\* line 398: main asks for the post's front matter
BuildFrontMatter ==
    /\ fm.err = "idle"
    /\ fm' = make_front_matter(fpost)
    /\ UNCHANGED fpost
    /\ UNCHANGED archive /\ UNCHANGED mainVars /\ UNCHANGED threadVars

NextFm == BuildFrontMatter

SpecFm == InitFm /\ [][NextFm]_vars

\* the items of a block-style YAML list
BlockItems(lines) ==
    IF lines = << <<"[", "]">> >> THEN <<>>
    ELSE [i \in DOMAIN lines |-> SubSeq(lines[i], 3, Len(lines[i]))]

\* the items of a flow-style YAML list
RECURSIVE SplitAtCommas(_, _)
SplitAtCommas(s, item) ==
    IF s = <<>> THEN <<item>>
    ELSE IF Head(s) = "," THEN <<item>> \o SplitAtCommas(Tail(Tail(s)), <<>>)
    ELSE SplitAtCommas(Tail(s), Append(item, Head(s)))
FlowItems(s) ==
    IF Len(s) = 2 THEN <<>> ELSE SplitAtCommas(SubSeq(s, 2, Len(s) - 1), <<>>)

\* a tag name without the '#' characters it starts with
LeadingHashes(name) ==
    Cardinality({n \in DOMAIN name : \A m \in 1..n : name[m] = "#"})
Unhashed(name) == SubSeq(name, LeadingHashes(name) + 1, Len(name))

\* the names of the post's Hashtag entries, in their order
RECURSIVE HashtagsInOrder(_)
HashtagsInOrder(tag) ==
    IF tag = <<>> THEN <<>>
    ELSE (IF Head(tag).type = "Hashtag" THEN <<Head(tag).name>> ELSE <<>>)
         \o HashtagsInOrder(Tail(tag))
NamesInOrder(p) == IF "tag" \in p.okeys THEN HashtagsInOrder(p.tag) ELSE <<>>

\* C9, as claimed: categories and tags both hold the names of the post's
\* Hashtag entries, in order, each lowercased and without its leading '#'.
C9_LoweredUnderBothKeys ==
    fm.err = "none" =>
        LET names == NamesInOrder(fpost)
            wanted == [i \in DOMAIN names |-> Lower(Unhashed(names[i]))]
        IN  BlockItems(fm.val.categories) = wanted /\ FlowItems(fm.val.tags) = wanted

\* C9, amended: each name keeps its case, and loses every leading '#'.
C9_AsWrittenUnderBothKeys ==
    fm.err = "none" =>
        LET names == NamesInOrder(fpost)
            wanted == [i \in DOMAIN names |-> Unhashed(names[i])]
        IN  BlockItems(fm.val.categories) = wanted /\ FlowItems(fm.val.tags) = wanted

\* C9 witness: the front matter of a post with a mention and the hashtag
\* "#C" lists "C" under both keys.
C9_Witness ==
    /\ fm.err = "none"
    /\ fpost.tag = <<Mention(<<"#", "c">>), Hashtag(<<"#", "C">>)>>
    /\ fm.val.categories = << <<"-", " ", "C">> >>
    /\ fm.val.tags = <<"[", "C", "]">>

====
